---- MODULE Spec2Model ----
(***************************************************************************)
(* Salesforce Architecture and Best Practices Advisor.                     *)
(*                                                                         *)
(* A model of the query orchestrator (SalesforceRAGSystem.query), of the   *)
(* question validator, and of the analysis tools it routes to (Apex code   *)
(* reviewer, governor limits calculator), and of the persistent index      *)
(* store the instance keeps (rebuild, load, add, remove by source, the      *)
(* start-up ingestion of the application and the upload form).             *)
(*                                                                         *)
(* Text is modelled as a sequence of tokens joined by single spaces.  A    *)
(* token is a record [w, e, vt, v]:                                        *)
(*   w   the text of a word token, or the operation name of a JSON item    *)
(*   e   how many times html.escape has been applied to the token          *)
(*   vt  "" for a word token; for a JSON item "name": value the JSON type  *)
(*       of the value ("num", "str", "null")                               *)
(*   v   the numeric value of a "num" item (0 otherwise)                   *)
(***************************************************************************)
EXTENDS Integers, Sequences, FiniteSets, TLC

VARIABLES
    \* ---- SalesforceRAGSystem instance and the query() call
    vectorstore,    \* self.vectorstore is set
    llm,            \* self.llm / self.retriever are set (lazy handle)
    qpc,            \* "idle" | "returned" | "raised"
    question,       \* the argument of the last query() call
    cleaned,        \* the cleaned question query() worked on
    intent,         \* branch of the if/elif chain taken by the last call
    payload,        \* the text handed to the tool by the last call
    events,         \* what the last call did and what the services answered, in order
    docs,           \* the chunks the retriever returned to the last call
    result,         \* the dict returned by the last call
    error,          \* the exception raised by the last call ("" if none)
    \* ---- apex_code_reviewer line scan
    lines,          \* formatted_code.split('\n'), as line features
    lineNo,         \* number of lines scanned so far
    loop_stack,     \* sequence of [line, level]
    current_brace_level,
    issues,         \* line numbers flagged SOQL-in-loop, in order
    \* ---- governor_limits_calculator
    operations,     \* the payload string given to the calculator
    calc,           \* its outcome (status "" before the call)
    \* ---- the persisted index and the PDF directory
    pdfs,           \* data/raw: file name -> size/mtime stamp (0: no such file)
    dirs,           \* the persisted-index directories on disk, by name
    persist_directory,  \* self.persist_directory (self.metadata_file lives in it)
    attached,       \* the directory self.vectorstore is a handle on
    processed_files,    \* st.session_state.processed_files of the upload form
    call,           \* the last index operation: arguments, injected fault, outcome
    \* ---- SalesforceDocumentProcessor.process_all_pdfs
    splits,         \* the PDF directory: for each name of PdfNames the chunks its split yields (0: no such file)
    all_chunks,     \* the metadata of the chunks the call returned, in order
    \* ---- handle_file_change called from the watcher's threads
    processing,     \* the attributes processing_<filename> of the instance
    handlers,       \* per thread: where its handle_file_change call stands
    \* ---- the global rate_limiter, the global monitor and the question form of the UI
    now,            \* time.time(), in seconds
    requests,       \* rate_limiter.requests: user_id -> deque of request timestamps
    accepted,       \* per user, the timestamps of the calls is_allowed answered True to
    callers,        \* per thread: where its is_allowed call stands
    query_count,    \* monitor.query_count
    answered        \* per user, the questions the UI has answered

queryVars  == <<vectorstore, llm, qpc, question, cleaned, intent, payload, events, docs, result, error>>
reviewVars == <<lines, lineNo, loop_stack, current_brace_level, issues>>
limitVars  == <<operations, calc>>
indexVars  == <<pdfs, dirs, persist_directory, attached, processed_files, call>>
chunkVars  == <<splits, all_chunks>>
watchVars  == <<processing, handlers>>
rateVars   == <<now, requests, accepted, callers, query_count, answered>>
auxVars    == <<chunkVars, watchVars, rateVars>>
vars == <<vectorstore, llm, qpc, question, cleaned, intent, payload, events, docs, result, error,
          lines, lineNo, loop_stack, current_brace_level, issues, operations, calc,
          pdfs, dirs, persist_directory, attached, processed_files, call,
          splits, all_chunks, processing, handlers,
          now, requests, accepted, callers, query_count, answered>>

(***************************************************************************)
(* Bounds                                                                  *)
(***************************************************************************)
MaxQLen == 4
MaxOps == 3
MaxText == 2
MaxLines == 5
MaxVer == 1         \* size/mtime stamps a PDF goes through
MaxAlt == 1         \* timestamp-suffixed fallback directories a run may create
MaxEntries == 2     \* documents' chunk sets held by one index
MaxChunks == 2      \* chunks the splitter makes of one PDF
MaxThreads == 2     \* threads that call into the instance at the same time
MaxCalls == 12      \* is_allowed calls answered True in one run
MaxQuestions == 6   \* questions submitted through the form in one run

(***************************************************************************)
(* Text                                                                    *)
(***************************************************************************)
Word(w) == [w |-> w, e |-> 0, vt |-> "", v |-> 0]
Item(op, vt, v) == [w |-> op, e |-> 0, vt |-> vt, v |-> v]

LongWord == "x*2001"

\* the text  Name LIKE '%test%'  as one token: its quotes are characters html.escape rewrites
LikeLeading == [w |-> "like", e |-> 0, vt |-> "lead", v |-> 0]

\* len() of one token's text
WordLen(tok) ==
    IF tok.vt # "" THEN Len(tok.w) + 6
    ELSE IF tok.w = LongWord THEN 2001
    ELSE Len(tok.w)

RECURSIVE SumLen(_)
SumLen(s) == IF s = <<>> THEN 0 ELSE WordLen(Head(s)) + SumLen(Tail(s))

\* len(s): the tokens and the single spaces that join them
StrLen(s) == IF s = <<>> THEN 0 ELSE SumLen(s) + Len(s) - 1

IsBlank(tok) == tok.vt = "" /\ tok.w = " "

\* str.strip()
RECURSIVE LStrip(_)
LStrip(s) == IF s # <<>> /\ IsBlank(Head(s)) THEN LStrip(Tail(s)) ELSE s

RECURSIVE RStrip(_)
RStrip(s) == IF s # <<>> /\ IsBlank(s[Len(s)]) THEN RStrip(SubSeq(s, 1, Len(s) - 1)) ELSE s

Strip(s) == RStrip(LStrip(s))

\* str.lower() on one word
LowerWord(w) ==
    CASE w = "Usage"  -> "usage"
      [] w = "SELECT" -> "select"
      [] w = "FROM"   -> "from"
      [] OTHER        -> w

Lower(s) == [i \in DOMAIN s |-> [s[i] EXCEPT !.w = LowerWord(@)]]

\* a token whose text holds a character html.escape rewrites (the quotes of a JSON item)
Special(tok) == tok.vt # ""

\* html.escape / html.unescape
HtmlEscape(s) == [i \in DOMAIN s |-> IF Special(s[i]) THEN [s[i] EXCEPT !.e = @ + 1] ELSE s[i]]
HtmlUnescape(s) == [i \in DOMAIN s |-> IF s[i].e > 0 THEN [s[i] EXCEPT !.e = @ - 1] ELSE s[i]]

\* `kw in s` for a one-word pattern
In(kw, s) == \E i \in DOMAIN s : s[i].vt = "" /\ s[i].w = kw

\* `"a b" in s` for a two-word pattern
InPair(a, b, s) == \E i \in 1..(Len(s) - 1) : /\ s[i].vt = "" /\ s[i].w = a
                                               /\ s[i + 1].vt = "" /\ s[i + 1].w = b

\* `"kw " in s`: the word followed by a space, hence not the last token
InThenSpace(kw, s) == \E i \in 1..(Len(s) - 1) : s[i].vt = "" /\ s[i].w = kw

\* s.find(kw): first position, 0 when absent (positions are 1-based here)
Find(kw, s) == IF In(kw, s) THEN CHOOSE i \in DOMAIN s :
                                   /\ s[i].vt = "" /\ s[i].w = kw
                                   /\ \A j \in 1..(i - 1) : ~(s[j].vt = "" /\ s[j].w = kw)
               ELSE 0

\* s.rfind(kw)
RFind(kw, s) == IF In(kw, s) THEN CHOOSE i \in DOMAIN s :
                                    /\ s[i].vt = "" /\ s[i].w = kw
                                    /\ \A j \in (i + 1)..Len(s) : ~(s[j].vt = "" /\ s[j].w = kw)
                ELSE 0

FindPair(a, b, s) == IF InPair(a, b, s) THEN CHOOSE i \in 1..(Len(s) - 1) :
                                    /\ s[i].vt = "" /\ s[i].w = a /\ s[i + 1].vt = "" /\ s[i + 1].w = b
                                    /\ \A j \in 1..(i - 1) :
                                         ~(s[j].vt = "" /\ s[j].w = a /\ s[j + 1].vt = "" /\ s[j + 1].w = b)
                     ELSE 0

SeqsUpTo(S, n) == UNION {[1..k -> S] : k \in 0..n}

(***************************************************************************)
(* InputValidator                                                          *)
(***************************************************************************)
max_lengths_question == 2000

sql_injection_pairs == {<<"union", "select">>, <<"drop", "table">>, <<"insert", "into">>,
                        <<"update", "set">>, <<"delete", "from">>}
sql_injection_words == {"exec"}
inappropriate_keywords == {"hack", "exploit", "bypass", "unauthorized", "steal", "crack"}

_check_security_patterns(text) ==
    \A t \in {Lower(text)} :
    ~ \/ \E p \in sql_injection_pairs :
            \E i \in DOMAIN t : \E j \in DOMAIN t :
                i < j /\ t[i].vt = "" /\ t[i].w = p[1] /\ t[j].vt = "" /\ t[j].w = p[2]
      \/ \E k \in sql_injection_words : In(k, t)

_is_inappropriate_content(text) ==
    \E text_lower \in {Lower(text)} : \E k \in inappropriate_keywords : In(k, text_lower)

\* returns [is_valid, message, cleaned_question]
validate_question(q) ==
    IF q = <<>> \/ Strip(q) = <<>> THEN
        [is_valid |-> FALSE, message |-> "Question cannot be empty", cleaned_question |-> q]
    ELSE IF StrLen(q) > max_lengths_question THEN
        [is_valid |-> FALSE, message |-> "Question too long", cleaned_question |-> q]
    ELSE LET cleaned_question == HtmlEscape(Strip(q)) IN
        IF ~_check_security_patterns(cleaned_question) THEN
            [is_valid |-> FALSE, message |-> "Potentially malicious SQL pattern detected",
             cleaned_question |-> cleaned_question]
        ELSE IF _is_inappropriate_content(cleaned_question) THEN
            [is_valid |-> FALSE, message |-> "Question contains inappropriate content",
             cleaned_question |-> cleaned_question]
        ELSE
            [is_valid |-> TRUE, message |-> "Valid", cleaned_question |-> cleaned_question]

NoResult == [pending |-> TRUE]

\* the instance right after __init__, no call made
IdleQuery ==
    /\ vectorstore = FALSE /\ llm = FALSE /\ qpc = "idle" /\ question = <<>> /\ cleaned = <<>>
    /\ intent = "" /\ payload = <<>> /\ events = <<>> /\ docs = <<>> /\ result = NoResult /\ error = ""

IdleReview == lines = <<>> /\ lineNo = 0 /\ loop_stack = <<>> /\ current_brace_level = 0 /\ issues = <<>>

\* the PDFs of data/raw, and the documents they are split into: one chunk set per file and stamp
Files == {"a.pdf", "b.pdf"}
Docs == Files \X (1..MaxVer)

\* directory names: 0 is the configured location, k the k-th timestamp-suffixed one
DirNames == 0..MaxAlt

NoEntries == [d \in Docs |-> 0]
\* stored_metadata.get('pdf_fingerprint', '') of a missing sidecar: equal to no fingerprint
NoFingerprint == {<<"", 0>>}
NoMetadata == [present |-> FALSE, pdf_fingerprint |-> NoFingerprint, document_count |-> 0]

\* a directory that does not exist
NoDir == [exists |-> FALSE, db |-> "none", entries |-> NoEntries, metadata |-> NoMetadata]

\* op: the operation; source: its file argument; fault: what the environment made fail;
\* outcome: "returned" | "raised"; value: what needs_rebuild returned; attempts, fallback: the
\* rmtree attempts of a rebuild and whether it moved to another directory; empty: no chunk
\* was handed to the call
NoCall == [op |-> "", source |-> "", fault |-> "none", outcome |-> "", value |-> FALSE,
           attempts |-> 0, fallback |-> FALSE, empty |-> FALSE]

\* a new instance, an empty data/raw and nothing persisted
IdleIndex ==
    /\ pdfs = [f \in Files |-> 0]
    /\ dirs = [n \in DirNames |-> NoDir]
    /\ persist_directory = 0
    /\ attached = 0
    /\ processed_files = {}
    /\ call = NoCall

\* sorted(os.listdir(pdf_directory)): the names a directory may hold, in sorted order
PdfNames == <<"a.pdf", "b.pdf", "c.pdf">>

IdleChunks == splits = [i \in DOMAIN PdfNames |-> 0] /\ all_chunks = <<>>

Threads == 1..MaxThreads

\* a thread outside handle_file_change
NoHandler == [pc |-> "idle", file |-> "", event_type |-> "", touched |-> FALSE]

IdleWatch == processing = [f \in Files |-> FALSE] /\ handlers = [t \in Threads |-> NoHandler]

Users == {"u1", "u2"}

\* a thread outside is_allowed
NoCaller == [pc |-> "idle", user |-> "", current_time |-> 0]

\* the module has just been imported: no request recorded, nothing logged
IdleRate ==
    /\ now = 0
    /\ requests = [u \in Users |-> <<>>]
    /\ accepted = [u \in Users |-> <<>>]
    /\ callers = [t \in Threads |-> NoCaller]
    /\ query_count = 0
    /\ answered = [u \in Users |-> 0]

IdleAux == IdleChunks /\ IdleWatch /\ IdleRate

(***************************************************************************)
(* governor_limits_calculator                                              *)
(***************************************************************************)
sync_limits == [soql_queries |-> 100, dml_statements |-> 150, dml_records |-> 10000,
                heap_size_mb |-> 6, cpu_time_ms |-> 10000, callouts |-> 100,
                email_invocations |-> 10, future_calls |-> 50, queueable_jobs |-> 50]

NoBlanks(s) == SelectSeq(s, LAMBDA tok : ~IsBlank(tok))

\* json.loads succeeds: an object of "name": value members whose quotes are real quotes
JsonObject(s) ==
    LET t == NoBlanks(s) IN
    /\ Len(t) >= 2
    /\ t[1] = Word("{")
    /\ t[Len(t)] = Word("}")
    /\ \A i \in 2..(Len(t) - 1) : t[i].vt # "" /\ t[i].e = 0

\* the dict json.loads builds: a repeated key keeps its first position and its last value
RECURSIVE DictPut(_, _)
DictPut(d, item) ==
    IF d = <<>> THEN <<item>>
    ELSE IF Head(d).w = item.w THEN <<item>> \o Tail(d)
    ELSE <<Head(d)>> \o DictPut(Tail(d), item)

RECURSIVE DictOf(_, _)
DictOf(d, items) == IF items = <<>> THEN d ELSE DictOf(DictPut(d, Head(items)), Tail(items))

JsonLoads(s) == LET t == NoBlanks(s) IN DictOf(<<>>, SubSeq(t, 2, Len(t) - 1))

\* free text: re.search(r'(\d+)\s*soql') and re.search(r'(\d+)\s*dml') on the lowered text
CountWords == [soql |-> "50 soql", dml |-> "75 dml"]
CountValue == [soql |-> 50, dml |-> 75]

FreeTextOps(s) ==
    LET t == Lower(s)
        soql == IF In(CountWords.soql, t) THEN <<Item("soql_queries", "num", CountValue.soql)>> ELSE <<>>
        dml  == IF In(CountWords.dml, t) THEN <<Item("dml_statements", "num", CountValue.dml)>> ELSE <<>>
    IN soql \o dml

\* percentage = (used / limit) * 100, kept exact as numerator and denominator
Percentage(used, limit) == <<used * 100, limit>>
PctAbove(p, n) == p[1] > n * p[2]

BucketCriticalAlt(used, limit) == Percentage(used, limit)[1] >= 80 * Percentage(used, limit)[2]

\* percentage > 80
BucketCritical(used, limit) == PctAbove(Percentage(used, limit), 80)

\* elif percentage > 60
BucketWarning(used, limit) == ~BucketCritical(used, limit) /\ PctAbove(Percentage(used, limit), 60)

Recognised(item) == item.w \in DOMAIN sync_limits

Entry(item) == [op |-> item.w, used |-> item.v, limit |-> sync_limits[item.w]]

\* the loop over ops_data.items(): r is [raised, lines, critical_issues, warnings]
RECURSIVE LimitsLoop(_, _)
LimitsLoop(r, ops_data) ==
    IF ops_data = <<>> \/ r.raised THEN r
    ELSE LET item == Head(ops_data) IN
        IF ~Recognised(item) THEN LimitsLoop(r, Tail(ops_data))
        ELSE IF item.vt # "num" THEN [r EXCEPT !.raised = TRUE]
        ELSE LET limit == sync_limits[item.w]
                 r1 == [r EXCEPT !.lines = Append(@, Entry(item))]
                 r2 == IF BucketCritical(item.v, limit)
                         THEN [r1 EXCEPT !.critical_issues = Append(@, Entry(item))]
                       ELSE IF BucketWarning(item.v, limit)
                         THEN [r1 EXCEPT !.warnings = Append(@, Entry(item))]
                       ELSE r1
             IN LimitsLoop(r2, Tail(ops_data))

EmptyCalc == [status |-> "", raised |-> FALSE, lines |-> <<>>, critical_issues |-> <<>>, warnings |-> <<>>]

governor_limits_calculator(ops) ==
    IF ops = <<>> \/ Strip(ops) = <<>> THEN [EmptyCalc EXCEPT !.status = "help_empty"]
    ELSE IF ops[1] = Word("{") /\ ~JsonObject(ops) THEN [EmptyCalc EXCEPT !.status = "invalid_json"]
    ELSE IF ops[1] # Word("{") /\ FreeTextOps(ops) = <<>> THEN [EmptyCalc EXCEPT !.status = "help_format"]
    ELSE LET ops_data == IF ops[1] = Word("{") THEN JsonLoads(ops) ELSE FreeTextOps(ops)
             r == LimitsLoop(EmptyCalc, ops_data)
         IN IF r.raised THEN [EmptyCalc EXCEPT !.status = "TypeError", !.raised = TRUE]
            ELSE [r EXCEPT !.status = "report"]

\* the inputs of the calculator: JSON objects, truncated JSON, and free text
ItemValues == [soql_queries |-> {60, 61, 80, 81, 85}, dml_statements |-> {90, 120, 121, 140},
               heap_size_mb |-> {3, 4, 5}, api_calls |-> {7}]
Items == {Item(op, "num", v) : op \in {"soql_queries"}, v \in ItemValues.soql_queries}
         \cup {Item(op, "num", v) : op \in {"dml_statements"}, v \in ItemValues.dml_statements}
         \cup {Item(op, "num", v) : op \in {"heap_size_mb"}, v \in ItemValues.heap_size_mb}
         \cup {Item(op, "num", v) : op \in {"api_calls"}, v \in ItemValues.api_calls}
         \cup {Item("soql_queries", "str", 0), Item("heap_size_mb", "null", 0), Item("api_calls", "str", 0)}
FreeWords == {Word(" "), Word("what"), Word(CountWords.soql), Word(CountWords.dml)}

Payloads ==
    {<<Word("{")>> \o m \o <<Word("}")>> : m \in SeqsUpTo(Items, MaxOps)}
    \cup {<<Word("{")>> \o m : m \in SeqsUpTo(Items, 1)}
    \cup SeqsUpTo(FreeWords, MaxText)

InitLimits ==
    /\ IdleQuery
    /\ IdleReview
    /\ IdleIndex
    /\ IdleAux
    /\ operations \in Payloads
    /\ calc = EmptyCalc

\* governor_limits_calculator.invoke({"operations": operations})
Calculate ==
    /\ calc.status = ""
    /\ calc' = governor_limits_calculator(operations)
    /\ UNCHANGED <<auxVars, operations, queryVars, reviewVars, indexVars>>

NextLimits == Calculate

SpecLimits == InitLimits /\ [][NextLimits]_vars

(***************************************************************************)
(* apex_code_reviewer: the scan over the lines of the formatted code       *)
(*                                                                         *)
(* A line is the record of what the scan reads from it:                    *)
(*   loop    a loop pattern matches the line                               *)
(*   open    line_clean.count('{')      close   line_clean.count('}')      *)
(*   semi    ';' in line_clean                                             *)
(*   soql    a SOQL pattern matches     dml     a DML pattern matches      *)
(***************************************************************************)
Line(loop, open, close, semi, soql, dml) ==
    [loop |-> loop, open |-> open, close |-> close, semi |-> semi, soql |-> soql, dml |-> dml]

ForOpen       == Line(TRUE, 1, 0, FALSE, FALSE, FALSE)   \* for (Account a : accs) {
ForBare       == Line(TRUE, 0, 0, FALSE, FALSE, FALSE)   \* while (it.hasNext())
ForSingleSoql == Line(TRUE, 0, 0, TRUE, TRUE, FALSE)     \* for (Id i : ids) x = [SELECT Id FROM C];
IfOpen        == Line(FALSE, 1, 0, FALSE, FALSE, FALSE)  \* if (a.Active__c) {
Close         == Line(FALSE, 0, 1, FALSE, FALSE, FALSE)  \* }
Soql          == Line(FALSE, 0, 0, TRUE, TRUE, FALSE)    \* x = [SELECT Id FROM Contact];
Dml           == Line(FALSE, 0, 0, TRUE, FALSE, TRUE)    \* update a;

LineKinds == {ForOpen, ForBare, ForSingleSoql, IfOpen, Close, Soql, Dml}

Issue(i, kind, loop_line) == [line |-> i, kind |-> kind, loop_line |-> loop_line]

\* loop detection: what the line pushes on loop_stack
PushLoop(stack, level, i, line) ==
    IF ~line.loop THEN stack
    ELSE IF line.open > 0 THEN Append(stack, [line |-> i, level |-> level + line.open])
    ELSE IF line.semi THEN stack
    ELSE Append(stack, [line |-> i, level |-> level + 1])

\* the issues of a single-line loop
SingleLineIssues(i, line) ==
    IF line.loop /\ line.open = 0 /\ line.semi
    THEN (IF line.soql THEN <<Issue(i, "soql_single_line", i)>> ELSE <<>>)
         \o (IF line.dml THEN <<Issue(i, "dml_single_line", i)>> ELSE <<>>)
    ELSE <<>>

\* `if loop_stack and braces_closed == 0`: SOQL and DML inside the innermost open loop
InLoopIssues(stack, i, line) ==
    IF stack # <<>> /\ line.close = 0
    THEN (IF line.soql THEN <<Issue(i, "soql_in_loop", stack[Len(stack)].line)>> ELSE <<>>)
         \o (IF line.dml THEN <<Issue(i, "dml_in_loop", stack[Len(stack)].line)>> ELSE <<>>)
    ELSE <<>>

KeepLoopAlt(entry, level) == entry.level <= level

\* the filter applied to loop_stack after a line with closing braces
KeepLoop(entry, level) == entry.level > level

CloseLoops(stack, level, line) ==
    IF line.close > 0 /\ stack # <<>>
    THEN SelectSeq(stack, LAMBDA entry : KeepLoop(entry, level))
    ELSE stack

InitReview ==
    /\ IdleQuery
    /\ IdleIndex
    /\ IdleAux
    /\ operations = <<>> /\ calc = EmptyCalc
    /\ lines \in SeqsUpTo(LineKinds, MaxLines) \ {<<>>}
    /\ lineNo = 0 /\ loop_stack = <<>> /\ current_brace_level = 0 /\ issues = <<>>

\* one iteration of `for i, line in enumerate(lines, 1)`
ScanLine ==
    /\ lineNo < Len(lines)
    /\ LET i == lineNo + 1
           line == lines[i]
           pushed == PushLoop(loop_stack, current_brace_level, i, line)
           opened == current_brace_level + line.open
           closed == opened - line.close
       IN /\ lineNo' = i
          /\ issues' = issues \o SingleLineIssues(i, line) \o InLoopIssues(pushed, i, line)
          /\ current_brace_level' = closed
          /\ loop_stack' = CloseLoops(pushed, closed, line)
    /\ UNCHANGED <<auxVars, lines, queryVars, limitVars, indexVars>>

NextReview == ScanLine

SpecReview == InitReview /\ [][NextReview]_vars

(***************************************************************************)
(* SalesforceRAGSystem.query                                               *)
(***************************************************************************)
retriever_k == 5

limit_keywords == {"governor", "limits", "calculate", "usage"}
strong_code == {<<"public", "class">>, <<"public", "static">>, <<"private", "class">>, <<"private", "static">>}
code_words == {"public", "private", "void", "return", "if(", "for(", "while("}

LimitsLabel == "Governor Limits Calculator"
ReviewLabel == "Apex Code Reviewer"
OptimizerLabel == "SOQL Query Optimizer"

\* 1. governor limits detection
IsLimitsCalc(q) ==
    /\ \E question_lower \in {Lower(q)} : \E k \in limit_keywords : In(k, question_lower)
    /\ In("{", q)
    /\ In("}", q)

\* 2. Apex code review detection
IsCodeReview(q) ==
    \/ \E p \in strong_code : InPair(p[1], p[2], q)
    \/ In("{", q) /\ \E w \in code_words : In(w, q)
    \/ InThenSpace("trigger", Lower(q)) /\ In("{", q)

\* 3. SOQL query optimization detection
IsQueryOptimize(q) ==
    \E question_lower \in {Lower(q)} : In("select", question_lower) /\ In("from", question_lower)

ClassifyAlt(q) ==
    IF IsCodeReview(q) THEN "CodeReview"
    ELSE IF IsLimitsCalc(q) THEN "LimitsCalc"
    ELSE IF IsQueryOptimize(q) THEN "QueryOptimize"
    ELSE "GeneralRAG"

\* the if / elif / elif chain
Classify(q) ==
    IF IsLimitsCalc(q) THEN "LimitsCalc"
    ELSE IF IsCodeReview(q) THEN "CodeReview"
    ELSE IF IsQueryOptimize(q) THEN "QueryOptimize"
    ELSE "GeneralRAG"

\* operations = question[json_start:json_end], HTML-unescaped twice
LimitsPayload(q) ==
    LET json_start == Find("{", q)
        json_end == RFind("}", q) + 1
        ops == IF json_start >= 1 /\ json_end > json_start
               THEN SubSeq(q, json_start, json_end - 1) ELSE q
    IN HtmlUnescape(HtmlUnescape(ops))

\* position of the first "}" at or after position from, 0 when there is none
FindFrom(kw, s, from) ==
    LET hits == {i \in DOMAIN s : i >= from /\ s[i].vt = "" /\ s[i].w = kw}
    IN IF hits = {} THEN 0 ELSE CHOOSE i \in hits : \A j \in hits : i <= j

\* code = question[code_start:], or the text up to the first "}" after the first "{"
CodePayload(q) ==
    LET code_start == IF InPair("public", "class", q) THEN FindPair("public", "class", q)
                      ELSE IF In("trigger", q) THEN Find("trigger", q)
                      ELSE IF In("public", q) THEN Find("public", q)
                      ELSE IF In("private", q) THEN Find("private", q)
                      ELSE 0
    IN IF code_start >= 1 THEN SubSeq(q, code_start, Len(q))
       ELSE IF In("{", q) /\ In("}", q)
            THEN LET brace_start == Find("{", q)
                     brace_end == FindFrom("}", q, brace_start)
                 IN IF brace_end = 0 THEN SubSeq(q, 1, brace_start - 1) ELSE SubSeq(q, 1, brace_end)
       ELSE q

\* the words removed from the end of the extracted query: [' ?', '?', ' optimize', ' query']
trailing_words == <<[w |-> "?", space |-> TRUE], [w |-> "?", space |-> FALSE],
                    [w |-> "optimize", space |-> TRUE], [w |-> "query", space |-> TRUE]>>

RECURSIVE DropTrailing(_, _)
DropTrailing(s, ws) ==
    IF ws = <<>> THEN s
    ELSE LET t == Lower(s)
             hit == /\ s # <<>>
                    /\ t[Len(s)].vt = "" /\ t[Len(s)].w = Head(ws).w
                    /\ Head(ws).space => Len(s) >= 2
         IN DropTrailing(IF hit THEN Strip(SubSeq(s, 1, Len(s) - 1)) ELSE s, Tail(ws))

\* final_query: the text from the first `select`, stripped, without trailing question words
QueryPayload(q) ==
    LET select_start == Find("select", Lower(q))
        query_part == SubSeq(q, select_start, Len(q))
    IN DropTrailing(Strip(query_part), trailing_words)

\* what the reviewer and the optimizer return: a help line for blank input, else a report
ReviewerOutcome(code) == IF code = <<>> \/ Strip(code) = <<>> THEN "review_help" ELSE "review_report"
OptimizerOutcome(q) == IF q = <<>> \/ Strip(q) = <<>> THEN "optimizer_help" ELSE "optimizer_report"

\* where_clause: query_lower.split('where')[1], cut at the first 'order by'
WhereClause(q) ==
    LET query_lower == Lower(q)
        rest == SubSeq(query_lower, Find("where", query_lower) + 1, Len(query_lower))
        next == Find("where", rest)
        part == IF next = 0 THEN rest ELSE SubSeq(rest, 1, next - 1)
        order_by == FindPair("order", "by", part)
    IN IF order_by = 0 THEN part ELSE SubSeq(part, 1, order_by - 1)

\* re.search(r"like\s+['\"]%", where_clause): the quote has to be the character itself, an
\* escaped quote (&#x27;) does not match
LeadingWildcard(tok) == tok.w = "like" /\ tok.vt = "lead" /\ tok.e = 0

\* the optimizer's check for LIKE with a leading wildcard; the issue and the SOSL suggestion
\* are appended together
LikeFlagged(q) ==
    /\ In("where", Lower(q))
    /\ \E i \in DOMAIN WhereClause(q) : LeadingWildcard(WhereClause(q)[i])

\* soql_query_optimizer.invoke({"query": query}): what the report says about LIKE
soql_query_optimizer(query) ==
    [status |-> OptimizerOutcome(query),
     leading_wildcard_issue |-> Strip(query) # <<>> /\ LikeFlagged(Strip(query)),
     sosl_suggested |-> Strip(query) # <<>> /\ LikeFlagged(Strip(query))]

ToolLabelAlt(i) ==
    CASE i = "LimitsCalc"    -> LimitsLabel
      [] i = "CodeReview"    -> ReviewLabel
      [] i = "QueryOptimize" -> ReviewLabel
      [] OTHER               -> ""

ToolLabel(i) ==
    CASE i = "LimitsCalc"    -> LimitsLabel
      [] i = "CodeReview"    -> ReviewLabel
      [] i = "QueryOptimize" -> OptimizerLabel
      [] OTHER               -> ""

ToolPayload(i, q) ==
    CASE i = "LimitsCalc"    -> LimitsPayload(q)
      [] i = "CodeReview"    -> CodePayload(q)
      [] i = "QueryOptimize" -> QueryPayload(q)
      [] OTHER               -> <<>>

\* function_result; "" stands for no result, "TypeError" for the exception of the calculator
ToolResult(i, p) ==
    CASE i = "LimitsCalc"    -> governor_limits_calculator(p).status
      [] i = "CodeReview"    -> ReviewerOutcome(p)
      [] i = "QueryOptimize" -> OptimizerOutcome(p)
      [] OTHER               -> ""

Document(i) == [page_content |-> i, metadata |-> [chunk_index |-> i]]

\* self.retriever.invoke(question): the n nearest chunks, most similar first
Retrieved(n) == [i \in 1..n |-> Document(i)]

Prefix(s, n) == SubSeq(s, 1, IF Len(s) < n THEN Len(s) ELSE n)

MetadataAlt(d) == [i \in DOMAIN d |-> d[1].metadata]

\* [doc.metadata for doc in docs]
Metadata(d) == [i \in DOMAIN d |-> d[i].metadata]

NoMatchAnswer == "I couldn't find relevant information"
ApologyAnswer == "I encountered an error processing your question"
LlmAnswer == "response.content"

ToolSourcesAlt(d) == d

\* docs[:3] if docs else []
ToolSources(d) == Prefix(d, 3)

\* the dict returned on the tool path
ToolReturn(label, function_result, d) ==
    [answer |-> [header |-> label, text |-> function_result, related |-> Len(Prefix(d, 2))],
     sources |-> ToolSources(d),
     source_metadata |-> Metadata(ToolSources(d)),
     tool_used |-> label]

\* the dicts returned on the regular RAG path
RagReturn(text, d) ==
    [answer |-> [header |-> "", text |-> text, related |-> 0],
     sources |-> d,
     source_metadata |-> Metadata(d)]


Returned(r, ev, d) == [qpc |-> "returned", result |-> r, error |-> "", events |-> ev, docs |-> d]
Raised(e, ev) == [qpc |-> "raised", result |-> NoResult, error |-> e, events |-> ev, docs |-> <<>>]

ValidationError == "ValueError: Input validation failed"
NotInitialized == "ValueError: Vector store not initialized"

SetupNeededAlt(v, llmSet) == ~llmSet

\* `if not hasattr(self, 'llm') or not self.llm`, reached only by a valid question
SetupNeeded(v, llmSet) == v.is_valid /\ ~llmSet

NoMatchAlt(d) == FALSE

\* `if not docs`
NoMatch(d) == d = <<>>

GenerationFailureAlt(d, ev) == Raised("GenerationError", ev)

\* `except Exception` around self.llm.invoke
GenerationFailure(d, ev) == Returned(RagReturn(ApologyAnswer, d), ev, d)

\* 5. regular RAG
RegularRag(env, ev0) ==
    LET d == Retrieved(env.n)
        ev1 == Append(ev0, "retrieve_ok")
    IN IF env.retrieval = "fail" THEN Raised("RetrievalError", Append(ev0, "retrieve_fail"))
       ELSE IF NoMatch(d) THEN Returned(RagReturn(NoMatchAnswer, <<>>), ev1, d)
       ELSE IF env.generation = "fail" THEN GenerationFailure(d, Append(ev1, "generate_fail"))
       ELSE Returned(RagReturn(LlmAnswer, d), Append(ev1, "generate_ok"), d)

\* 4. return function calling result
FunctionCalling(i, function_result, env, ev0) ==
    LET d == Retrieved(env.n)
    IN IF env.retrieval = "fail" THEN Raised("RetrievalError", Append(ev0, "retrieve_fail"))
       ELSE Returned(ToolReturn(ToolLabel(i), function_result, d), Append(ev0, "retrieve_ok"), d)

\* query() up to the tool invocation: validation, lazy setup, routing, extraction, tool call
QueryRoute(q, llmSet, vsSet) ==
    LET v == validate_question(q)
        setup == SetupNeeded(v, llmSet)
        ev0 == <<"validate">> \o (IF setup THEN <<"setup_qa_chain">> ELSE <<>>)
        cq == v.cleaned_question
        i == Classify(cq)
        p == ToolPayload(i, cq)
        function_result == ToolResult(i, p)
        none == [llm |-> llmSet, cleaned |-> <<>>, intent |-> "", payload |-> <<>>,
                 function_result |-> "", events |-> ev0, raised |-> ""]
    IN IF setup /\ ~vsSet THEN [none EXCEPT !.raised = NotInitialized]
       ELSE IF ~v.is_valid THEN [none EXCEPT !.raised = ValidationError, !.llm = llmSet \/ setup]
       ELSE [llm |-> TRUE, cleaned |-> cq, intent |-> i, payload |-> p,
             function_result |-> function_result,
             events |-> IF i = "GeneralRAG" THEN ev0
                        ELSE IF function_result = "TypeError" THEN Append(ev0, "tool_raise")
                        ELSE Append(ev0, "tool_ok"),
             raised |-> ""]

\* the rest of query(): `if function_result and tool_used`, else regular RAG
QueryOutcome(r, env) ==
    IF r.raised # "" THEN Raised(r.raised, r.events)
    ELSE IF r.intent # "GeneralRAG" /\ r.function_result = "TypeError" THEN Raised("TypeError", r.events)
    ELSE IF r.intent # "GeneralRAG" /\ r.function_result # ""
         THEN FunctionCalling(r.intent, r.function_result, env, r.events)
    ELSE RegularRag(env, r.events)

\* the words a question is made of
RoutingWords == {Word("Usage"), Word("{"), Word("}"), Word("trigger"), Word("select"), Word("from"),
                 Item("soql_queries", "num", 85), Item("soql_queries", "str", 0)}
ValidationWords == {Word(" "), Word("exec"), Word(LongWord), Word("public"), Word("class"), Word("{")}
\* a SOQL statement with a condition: LikeLeading is the text  Name LIKE '%test%'
StatementWords == {Word("select"), Word("from"), Word("where"), LikeLeading}

Questions == SeqsUpTo(RoutingWords, MaxQLen) \cup SeqsUpTo(ValidationWords, MaxQLen)
             \cup SeqsUpTo(StatementWords, MaxQLen)

\* what the services do during one call: the retrieval fails, or it returns n chunks and the
\* generation call then succeeds or fails
Envs == {[n |-> 0, retrieval |-> "fail", generation |-> "ok"]}
        \cup [n : 0..retriever_k, retrieval : {"ok"}, generation : {"ok", "fail"}]

Init ==
    /\ IdleQuery
    /\ IdleReview
    /\ IdleIndex
    /\ IdleAux
    /\ operations = <<>> /\ calc = EmptyCalc

\* load_vectorstore(): attach to the persisted index
load_vectorstore ==
    /\ qpc = "idle"
    /\ ~vectorstore
    /\ vectorstore' = TRUE
    /\ UNCHANGED <<auxVars, llm, qpc, question, cleaned, intent, payload, events, docs, result, error,
                   reviewVars, limitVars, indexVars>>

\* setup_qa_chain(), called by the application after the index is loaded or built
setup_qa_chain ==
    /\ qpc = "idle"
    /\ vectorstore
    /\ ~llm
    /\ llm' = TRUE
    /\ UNCHANGED <<auxVars, vectorstore, qpc, question, cleaned, intent, payload, events, docs, result, error,
                   reviewVars, limitVars, indexVars>>

\* one call of query(question)
Query ==
    /\ qpc = "idle"
    /\ \E q \in Questions : \E r \in {QueryRoute(q, llm, vectorstore)} :
         \E env \in Envs : \E o \in {QueryOutcome(r, env)} :
           /\ qpc' = o.qpc
           /\ result' = o.result
           /\ error' = o.error
           /\ events' = o.events
           /\ docs' = o.docs
           /\ llm' = r.llm
           /\ cleaned' = r.cleaned
           /\ intent' = r.intent
           /\ payload' = r.payload
           /\ question' = q
    /\ UNCHANGED <<auxVars, vectorstore, reviewVars, limitVars, indexVars>>

\* the caller takes the result or the exception; the instance is ready for the next call
NextCall ==
    /\ qpc \in {"returned", "raised"}
    /\ qpc' = "idle" /\ question' = <<>> /\ cleaned' = <<>> /\ intent' = "" /\ payload' = <<>>
    /\ events' = <<>> /\ docs' = <<>> /\ result' = NoResult /\ error' = ""
    /\ UNCHANGED <<auxVars, vectorstore, llm, reviewVars, limitVars, indexVars>>

Next ==
    \/ load_vectorstore
    \/ setup_qa_chain
    \/ Query
    \/ NextCall

Spec == Init /\ [][Next]_vars

(***************************************************************************)
(* Properties of query()                                                   *)
(***************************************************************************)
Range(s) == {s[i] : i \in DOMAIN s}

\* the last call got past validation and lazy setup, so the if / elif chain ran
Routed == qpc # "idle" /\ error # ValidationError /\ error # NotInitialized

ToolPath == \E k \in DOMAIN events : events[k] = "tool_ok"

\* C1: the path chosen for a validated question is the first of LimitsCalc, CodeReview,
\* QueryOptimize, GeneralRAG whose predicate holds; a limits question that also says
\* `trigger` goes to the Limits Calculator, and a code question that also has `select`
\* and `from` goes to the Code Reviewer, never to the Query Optimizer.
C1_FirstMatchWins ==
    Routed =>
        \A limits \in {IsLimitsCalc(cleaned)} : \A code \in {IsCodeReview(cleaned)} :
        \A soql \in {IsQueryOptimize(cleaned)} :
            /\ intent \in {"LimitsCalc", "CodeReview", "QueryOptimize", "GeneralRAG"}
            /\ limits => intent = "LimitsCalc"
            /\ ~limits /\ code => intent = "CodeReview"
            /\ ~limits /\ ~code /\ soql => intent = "QueryOptimize"
            /\ ~limits /\ ~code /\ ~soql => intent = "GeneralRAG"
            /\ limits /\ In("trigger", cleaned) /\ qpc = "returned"
                  => result.tool_used = LimitsLabel
            /\ ~limits /\ code /\ soql /\ qpc = "returned" => result.tool_used = ReviewLabel

C1_Witness ==
    /\ qpc = "returned"
    /\ ~IsLimitsCalc(cleaned) /\ IsCodeReview(cleaned) /\ IsQueryOptimize(cleaned)
    /\ intent = "CodeReview"
    /\ result.tool_used = ReviewLabel

BalancedBraces(q) == \E i \in DOMAIN q : \E j \in DOMAIN q : i < j /\ q[i] = Word("{") /\ q[j] = Word("}")

\* C2: a question goes to LimitsCalc iff it has a limit keyword and a balanced {...}
\* substring (a `{` with a `}` after it); the calculator then gets the text from the first
\* `{` to the last `}` of the question.
C2_LimitsIffBalanced ==
    Routed =>
        /\ intent = "LimitsCalc" <=>
              ((\E k \in limit_keywords : In(k, Lower(cleaned))) /\ BalancedBraces(cleaned))
        /\ intent = "LimitsCalc" =>
              payload = SubSeq(Strip(question), Find("{", Strip(question)), RFind("}", Strip(question)))

\* C6: a question the validator rejects makes query() raise the validation error before any
\* lazy handle setup, tool invocation, retrieval or generation call.
C6_ValidationFirst ==
    qpc # "idle" /\ ~validate_question(question).is_valid =>
        /\ qpc = "raised"
        /\ error = ValidationError
        /\ events = <<"validate">>
        /\ docs = <<>>

C6_Witness ==
    /\ qpc = "raised" /\ error = ValidationError
    /\ question # <<>> /\ Strip(question) # <<>>
    /\ vectorstore /\ ~llm

\* C7: on the GeneralRAG path, a retrieval that returns no chunk gives the fixed
\* no-relevant-information answer with empty sources and source_metadata, no exception and
\* no generation call.
C7_NoMatch ==
    Routed /\ intent = "GeneralRAG" /\ events[Len(events)] # "retrieve_fail"
           /\ "retrieve_ok" \in Range(events) /\ docs = <<>> =>
        /\ qpc = "returned"
        /\ error = ""
        /\ result.answer.text = NoMatchAnswer
        /\ result.sources = <<>>
        /\ result.source_metadata = <<>>
        /\ "generate_ok" \notin Range(events) /\ "generate_fail" \notin Range(events)

C7_Witness ==
    /\ qpc = "returned" /\ intent = "GeneralRAG" /\ docs = <<>>
    /\ events = <<"validate", "setup_qa_chain", "retrieve_ok">>
    /\ result.answer.text = NoMatchAnswer

\* C8: a failure of the generation call is answered with the fixed apology and the retrieved
\* chunks as sources; a failure of retrieval or of the tool reaches the caller.
C8_FailureContainment ==
    /\ "generate_fail" \in Range(events) =>
          /\ qpc = "returned"
          /\ error = ""
          /\ result.answer.text = ApologyAnswer
          /\ result.sources = docs
    /\ "retrieve_fail" \in Range(events) => qpc = "raised" /\ error = "RetrievalError"
    /\ "tool_raise" \in Range(events) => qpc = "raised" /\ error = "TypeError"

C8_Witness ==
    /\ qpc = "returned" /\ "generate_fail" \in Range(events)
    /\ Len(docs) >= 1 /\ result.sources = docs
    /\ result.answer.text = ApologyAnswer

\* C9 as stated: every returned result has at most 3 sources.
C9_AtMostThreeSources == qpc = "returned" => Len(result.sources) <= 3

\* C9 amended: a returned result has at most 3 sources on the tool path and at most
\* retriever_k (5) on the GeneralRAG path; the sources are the leading retrieved chunks,
\* in retrieval order.
C9_SourcesBound ==
    qpc = "returned" =>
        /\ ToolPath => Len(result.sources) <= 3
        /\ Len(result.sources) <= retriever_k
        /\ Len(result.sources) <= Len(docs)
        /\ \A k \in DOMAIN result.sources : result.sources[k] = docs[k]

C9_Witness == qpc = "returned" /\ ~ToolPath /\ Len(result.sources) = retriever_k

C9_ToolWitness == qpc = "returned" /\ ToolPath /\ Len(docs) = retriever_k /\ Len(result.sources) = 3

FourFields == {"answer", "sources", "source_metadata", "tool_used"}

\* C10 as stated: every returned result has the four fields; tool_used is the tool's label on
\* the tool path and null on the GeneralRAG path.
C10_FourFields ==
    qpc = "returned" =>
        /\ DOMAIN result = FourFields
        /\ ToolPath => result.tool_used # ""
        /\ ~ToolPath => result.tool_used = ""

\* C10 amended: a result of the tool path has the four fields and tool_used is the label of
\* the tool that handled the question; a result of the GeneralRAG path (no-match and
\* generation failure included) has the fields answer, sources and source_metadata and no
\* tool_used key.
C10_ResultShape ==
    qpc = "returned" =>
        IF ToolPath
        THEN /\ DOMAIN result = FourFields
             /\ intent = "LimitsCalc" => result.tool_used = LimitsLabel
             /\ intent = "CodeReview" => result.tool_used = ReviewLabel
             /\ intent = "QueryOptimize" => result.tool_used = OptimizerLabel
             /\ intent # "GeneralRAG"
        ELSE /\ DOMAIN result = FourFields \ {"tool_used"}
             /\ intent = "GeneralRAG"

C10_Witness ==
    /\ qpc = "returned" /\ intent = "GeneralRAG" /\ "generate_fail" \in Range(events)
    /\ "tool_used" \notin DOMAIN result

(***************************************************************************)
(* Properties of the Code Reviewer scan                                    *)
(***************************************************************************)
RECURSIVE DepthAfter(_)
\* brace depth of the source text after line k
DepthAfter(k) == IF k = 0 THEN 0 ELSE DepthAfter(k - 1) + lines[k].open - lines[k].close

SingleLineLoop(j) == lines[j].loop /\ lines[j].open = 0 /\ lines[j].semi

\* a loop whose body is a brace block
BraceLoop(j) == lines[j].loop /\ lines[j].open > 0

\* the depth inside the body of the loop that starts on line j
BodyLevel(j) == DepthAfter(j - 1) + lines[j].open

\* the closing brace of the loop of line j is on a line before line i
ClosedBefore(j, i) == \E k \in (j + 1)..(i - 1) : lines[k].close > 0 /\ DepthAfter(k) < BodyLevel(j)

\* up to line i the braces nest properly and every loop has a brace block or is one line
PlainPrefix(i) ==
    /\ \A k \in 1..i : DepthAfter(k) >= 0
    /\ \A j \in 1..i : lines[j].loop => BraceLoop(j) \/ SingleLineLoop(j)

SoqlStatement(i) == lines[i].soql /\ ~lines[i].loop /\ lines[i].close = 0

FlaggedInLoop(i) == \E k \in DOMAIN issues : issues[k].line = i /\ issues[k].kind = "soql_in_loop"

\* C3: a SOQL query on a line inside a loop that is not closed yet is reported with that
\* line's number; a SOQL query on a line after the loop's closing brace, inside no other
\* loop, is not flagged as in-loop.
C3_LoopScoping ==
    \A i \in 1..lineNo :
        SoqlStatement(i) /\ PlainPrefix(i) =>
            /\ (\E j \in 1..(i - 1) : BraceLoop(j) /\ ~ClosedBefore(j, i)) => FlaggedInLoop(i)
            /\ (\A j \in 1..(i - 1) : BraceLoop(j) => ClosedBefore(j, i)) => ~FlaggedInLoop(i)

(***************************************************************************)
(* Properties of the Limits Calculator                                     *)
(***************************************************************************)
IsJsonCall == calc.status # "" /\ operations # <<>> /\ operations[1] = Word("{") /\ JsonObject(operations)

Members == {i \in DOMAIN operations : operations[i].vt # ""}

RecognisedOps == {operations[i].w : i \in {m \in Members : operations[m].w \in DOMAIN sync_limits}}

\* the count of an operation: the value of its last member in the object
CountOf(op) ==
    LET last == CHOOSE i \in Members : operations[i].w = op /\ \A m \in Members : operations[m].w = op => m <= i
    IN operations[last].v

ExamplePayload == <<Word("{"), Item("soql_queries", "num", 85), Item("dml_statements", "num", 140),
                    Item("heap_size_mb", "num", 5), Word("}")>>

\* C4: each recognised operation with count u and ceiling L gets exactly one line; it is
\* listed as critical iff 100u > 80L and as a warning iff 60L < 100u <= 80L; for
\* {soql_queries: 85, dml_statements: 140, heap_size_mb: 5} the critical section has three
\* lines.
C4_Bucketing ==
    IsJsonCall /\ calc.status = "report" =>
        /\ Len(calc.lines) = Cardinality(RecognisedOps)
        /\ {l.op : l \in Range(calc.lines)} = RecognisedOps
        /\ \A l \in Range(calc.lines) : l.used = CountOf(l.op) /\ l.limit = sync_limits[l.op]
        /\ Range(calc.critical_issues) = {l \in Range(calc.lines) : 100 * l.used > 80 * l.limit}
        /\ Len(calc.critical_issues) = Cardinality(Range(calc.critical_issues))
        /\ Range(calc.warnings) =
              {l \in Range(calc.lines) : 60 * l.limit < 100 * l.used /\ 100 * l.used <= 80 * l.limit}
        /\ Len(calc.warnings) = Cardinality(Range(calc.warnings))
        /\ operations = ExamplePayload => Len(calc.critical_issues) = 3

C4_Witness ==
    /\ operations = ExamplePayload
    /\ calc.status = "report"
    /\ Len(calc.lines) = 3 /\ Len(calc.critical_issues) = 3 /\ calc.warnings = <<>>

\* C5: the calculator returns a report or a help message for every payload; it never raises.
C5_NeverRaises == calc.status # "" => calc.status \in {"report", "help_empty", "help_format", "invalid_json"}

(***************************************************************************)
(* The persistent index store                                              *)
(***************************************************************************)
RECURSIVE SumOver(_, _)
SumOver(S, e) == IF S = {} THEN 0
                 ELSE LET x == CHOOSE y \in S : TRUE IN e[x] + SumOver(S \ {x}, e)

\* len(self.vectorstore.get()['ids']) / collection.count()
Count(e) == SumOver(DOMAIN e, e)

\* md5 over the sorted {filename: {size, modified}} of the PDFs present
_get_pdf_fingerprint(p) == {<<f, p[f]>> : f \in {g \in Files : p[g] > 0}}

MetadataOf(fp, n) == [present |-> TRUE, pdf_fingerprint |-> fp, document_count |-> n]

\* _save_metadata into self.metadata_file (os.makedirs creates the directory)
_save_metadata(ds, location, fp, n) ==
    [ds EXCEPT ![location] = [@ EXCEPT !.exists = TRUE, !.metadata = MetadataOf(fp, n)]]

\* what the environment makes fail during a call: nothing, the store / embedding call, or
\* (in add and remove, where it is caught) the write of the sidecar file
Faults == {"none", "store", "metadata"}

needs_rebuildAlt(d, p) ==
    \/ ~d.exists
    \/ d.db # "ok"
    \/ Count(d.entries) = 0

\* needs_rebuild(pdf_directory) on the directory record d of self.persist_directory
needs_rebuild(d, p) ==
    IF ~d.exists THEN TRUE
    ELSE IF d.db = "damaged" THEN TRUE
    ELSE IF d.db = "none" THEN TRUE
    ELSE IF Count(d.entries) = 0 THEN TRUE
    ELSE _get_pdf_fingerprint(p) # d.metadata.pdf_fingerprint

\* process_single_pdf(path): the chunks of one PDF as it is now
process_single_pdf(f, p) == [d \in Docs |-> IF d = <<f, p[f]>> THEN 1 ELSE 0]

\* process_all_pdfs(pdf_directory)
process_all_pdfs(p) == [d \in Docs |-> IF p[d[1]] = d[2] THEN 1 ELSE 0]

\* entries of both bags
Plus(a, b) == [d \in Docs |-> a[d] + b[d]]

\* collection.delete(where={"source_file": filename})
DeleteWhere(e, f) == [d \in Docs |-> IF d[1] = f THEN 0 ELSE e[d]]

RmtreeAttempts == 3

\* a directory shutil.rmtree gave up on after removing part of it: what is left of the index
\* cannot be opened
Damaged(d) == [exists |-> TRUE, db |-> "damaged", entries |-> NoEntries, metadata |-> NoMetadata]

\* the directory Chroma.from_documents leaves: the collection is created, then the chunks are
\* embedded and added in one batch
Built(given, ok) == [exists |-> TRUE, db |-> "ok",
                     entries |-> IF ok THEN given ELSE NoEntries, metadata |-> NoMetadata]

\* the variables of the query model an index operation leaves alone
queryCall == <<qpc, question, cleaned, intent, payload, events, docs, result, error>>

Raise(ds) == [dirs |-> ds, outcome |-> "raised"]
Return(ds) == [dirs |-> ds, outcome |-> "returned"]

\* _update_metadata_after_change(pdf_path): fingerprint of the file's directory and the count
\* of the live index, written to the sidecar; a failure is printed and dropped
_update_metadata_after_change(ds, p, fault) ==
    IF fault = "metadata" THEN ds
    ELSE _save_metadata(ds, persist_directory, _get_pdf_fingerprint(p), Count(ds[attached].entries))

\* add_documents_to_vectorstore(documents, pdf_path) on the directories ds, the PDFs being p
add_documents_to_vectorstore(ds, p, given, fault) ==
    IF ~vectorstore THEN Raise(ds)
    ELSE IF given = NoEntries THEN Return(ds)
    ELSE IF fault = "store" THEN Raise(ds)
    ELSE Return(_update_metadata_after_change(
                    [ds EXCEPT ![attached].entries = Plus(@, given)], p, fault))

\* remove_documents_by_source(pdf_path): an exception of the delete call is printed, not raised
remove_documents_by_source(ds, p, f, fault) ==
    IF ~vectorstore THEN Raise(ds)
    ELSE IF fault = "store" THEN Return(ds)
    ELSE Return(_update_metadata_after_change(
                    [ds EXCEPT ![attached].entries = DeleteWhere(@, f)], p, fault))

ChromaAlt(ds, location, fault) ==
    IF fault = "store" \/ ds[location].db = "damaged" THEN Raise(ds)
    ELSE Return([ds EXCEPT ![location] = Built(NoEntries, FALSE)])

\* Chroma(persist_directory, collection_name): opens the directory, creating it when missing,
\* and gets or creates the collection
Chroma(ds, location, fault) ==
    IF fault = "store" \/ ds[location].db = "damaged" THEN Raise(ds)
    ELSE Return([ds EXCEPT ![location] = [@ EXCEPT !.exists = TRUE, !.db = "ok"]])

TargetDirectoryAlt(old, fallback) == old

\* the directory create_vectorstore builds in: the configured one, or after RmtreeAttempts
\* failed attempts to delete it the next timestamp-suffixed one
TargetDirectory(old, fallback) == IF fallback THEN old + 1 ELSE old

\* create_vectorstore(documents, pdf_directory) by an instance configured on `old`;
\* fails: the rmtree attempts that fail; partial: the failed rmtree removed part of the tree
create_vectorstore(ds, old, p, given, fails, partial, fault) ==
    LET must == ds[old].exists
        fallback == must /\ fails = RmtreeAttempts
        target == TargetDirectory(old, fallback)
        built == fault # "store"
        \* a timestamp-suffixed directory the instance has moved away from is never opened
        \* again once the handle is on the new index: it is dropped from the state
        kept == IF ~must THEN ds[old]
                ELSE IF ~fallback THEN NoDir
                ELSE IF built /\ old > 0 THEN NoDir
                ELSE IF partial THEN Damaged(ds[old])
                ELSE ds[old]
        made == IF fault = "none"
                THEN [Built(given, TRUE) EXCEPT
                         !.metadata = MetadataOf(_get_pdf_fingerprint(p), Count(given))]
                ELSE Built(given, built)
    IN [dirs |-> [n \in DirNames |-> IF n = target THEN made ELSE IF n = old THEN kept ELSE ds[n]],
        persist_directory |-> target,
        built |-> built,
        outcome |-> IF fault = "none" THEN "returned" ELSE "raised",
        attempts |-> IF ~must THEN 0 ELSE IF fallback THEN RmtreeAttempts ELSE fails + 1,
        fallback |-> fallback]

\* the outcomes of rmtree the environment can choose for a rebuild from `old`
RmtreePossible(ds, old, fails, partial) ==
    /\ fails > 0 => ds[old].exists
    /\ partial => (ds[old].exists /\ fails = RmtreeAttempts)
    /\ (ds[old].exists /\ fails = RmtreeAttempts) => old < MaxAlt

\* a PDF is written to data/raw (new or rewritten: the next stamp)
WritePdf ==
    \E f \in Files :
        /\ pdfs[f] < MaxVer
        /\ pdfs' = [pdfs EXCEPT ![f] = @ + 1]
        /\ call' = [NoCall EXCEPT !.op = "write_pdf"]
        /\ UNCHANGED <<auxVars, vectorstore, llm, queryCall, reviewVars, limitVars,
                       dirs, persist_directory, attached, processed_files>>

\* a PDF is deleted from data/raw
RemovePdf ==
    \E f \in Files :
        /\ pdfs[f] > 0
        /\ pdfs' = [pdfs EXCEPT ![f] = 0]
        /\ call' = [NoCall EXCEPT !.op = "remove_pdf"]
        /\ UNCHANGED <<auxVars, vectorstore, llm, queryCall, reviewVars, limitVars,
                       dirs, persist_directory, attached, processed_files>>

\* needs_rebuild(pdf_directory)
NeedsRebuild ==
    /\ call' = [NoCall EXCEPT !.op = "needs_rebuild", !.outcome = "returned",
                              !.value = needs_rebuild(dirs[persist_directory], pdfs)]
    /\ UNCHANGED <<auxVars, vectorstore, llm, queryCall, reviewVars, limitVars,
                   pdfs, dirs, persist_directory, attached, processed_files>>

\* create_vectorstore(documents, pdf_directory), called with process_all_pdfs(pdf_directory)
\* when that is not empty
CreateVectorstore ==
    /\ process_all_pdfs(pdfs) # NoEntries
    /\ \E fails \in 0..RmtreeAttempts : \E partial \in BOOLEAN : \E fault \in {"none", "store"} :
        /\ RmtreePossible(dirs, persist_directory, fails, partial)
        /\ \E o \in {create_vectorstore(dirs, persist_directory, pdfs, process_all_pdfs(pdfs),
                                          fails, partial, fault)} :
              /\ dirs' = o.dirs
              /\ persist_directory' = o.persist_directory
              /\ vectorstore' = (vectorstore \/ o.built)
              /\ attached' = IF o.built THEN o.persist_directory ELSE attached
              /\ call' = [NoCall EXCEPT !.op = "create_vectorstore", !.fault = fault,
                                        !.outcome = o.outcome, !.attempts = o.attempts,
                                        !.fallback = o.fallback]
    /\ UNCHANGED <<auxVars, llm, queryCall, reviewVars, limitVars, pdfs, processed_files>>

\* load_vectorstore(): the handle is kept when Chroma(...) and the count of ids succeed
LoadVectorstore ==
    \E fault \in {"none", "store"} :
        \E o \in {Chroma(dirs, persist_directory, fault)} :
           /\ dirs' = o.dirs
           /\ vectorstore' = (vectorstore \/ o.outcome = "returned")
           /\ attached' = IF o.outcome = "returned" THEN persist_directory ELSE attached
           /\ call' = [NoCall EXCEPT !.op = "load_vectorstore", !.fault = fault,
                                     !.outcome = o.outcome]
           /\ UNCHANGED <<auxVars, llm, queryCall, reviewVars, limitVars,
                          pdfs, persist_directory, processed_files>>

\* add_documents_to_vectorstore(documents, pdf_path), with the chunks of the PDF or with none
AddDocuments ==
    \E f \in Files : \E empty \in BOOLEAN : \E fault \in Faults :
        /\ pdfs[f] > 0
        /\ \E given \in {IF empty THEN NoEntries ELSE process_single_pdf(f, pdfs)} :
           \E o \in {add_documents_to_vectorstore(dirs, pdfs, given, fault)} :
           /\ Count(dirs[attached].entries) + Count(given) <= MaxEntries
           /\ dirs' = o.dirs
           /\ call' = [NoCall EXCEPT !.op = "add_documents_to_vectorstore", !.source = f,
                                     !.fault = fault, !.outcome = o.outcome,
                                     !.empty = empty]
           /\ UNCHANGED <<auxVars, vectorstore, llm, queryCall, reviewVars, limitVars,
                          pdfs, persist_directory, attached, processed_files>>

\* remove_documents_by_source(pdf_path)
RemoveDocumentsBySource ==
    \E f \in Files : \E fault \in Faults :
        \E o \in {remove_documents_by_source(dirs, pdfs, f, fault)} :
           /\ dirs' = o.dirs
           /\ call' = [NoCall EXCEPT !.op = "remove_documents_by_source", !.source = f,
                                     !.fault = fault, !.outcome = o.outcome]
           /\ UNCHANGED <<auxVars, vectorstore, llm, queryCall, reviewVars, limitVars,
                          pdfs, persist_directory, attached, processed_files>>

EventTypes == {"created", "modified", "deleted"}

\* handle_file_change(file_path, event_type), from its first statement to its `finally`;
\* rfault, afault: what fails in the remove and in the add it makes.  No exception leaves it.
handle_file_change(ds, p, f, event_type, rfault, afault) ==
    LET removed == IF event_type \in {"modified", "deleted"}
                   THEN remove_documents_by_source(ds, p, f, rfault).dirs
                   ELSE ds
        documents == process_single_pdf(f, p)
    IN IF p[f] = 0 THEN ds
       ELSE IF event_type = "deleted" THEN removed
       ELSE IF documents # NoEntries
            THEN add_documents_to_vectorstore(removed, p, documents, afault).dirs
       ELSE removed

HandleFileChange ==
    \E f \in Files : \E event_type \in EventTypes : \E rfault \in Faults : \E afault \in Faults :
        /\ event_type = "created" => rfault = "none"
        /\ event_type = "deleted" => afault = "none"
        /\ event_type = "deleted" \/ Count(dirs[attached].entries) + 1 <= MaxEntries
        /\ dirs' = handle_file_change(dirs, pdfs, f, event_type, rfault, afault)
        /\ call' = [NoCall EXCEPT !.op = event_type, !.source = f,
                                  !.fault = IF rfault # "none" THEN rfault ELSE afault,
                                  !.outcome = "returned"]
        /\ UNCHANGED <<auxVars, vectorstore, llm, queryCall, reviewVars, limitVars,
                       pdfs, persist_directory, attached, processed_files>>

\* render_file_upload_section() with an uploaded file f of size stamp v and the button pressed:
\* nothing for a file_key already processed; else the file is written to data/raw, split and
\* added, and its key recorded when the add returned
Upload ==
    \E f \in Files : \E v \in 1..MaxVer : \E fault \in Faults :
        /\ <<f, v>> \notin processed_files
        /\ Count(dirs[attached].entries) + 1 <= MaxEntries
        /\ \E p \in {[pdfs EXCEPT ![f] = v]} :
           \E o \in {add_documents_to_vectorstore(dirs, p, process_single_pdf(f, p), fault)} :
           /\ pdfs' = p
           /\ dirs' = o.dirs
           /\ processed_files' = IF o.outcome = "returned" THEN processed_files \cup {<<f, v>>}
                                 ELSE processed_files
           /\ call' = [NoCall EXCEPT !.op = "upload", !.source = f, !.fault = fault,
                                     !.outcome = o.outcome]
           /\ UNCHANGED <<auxVars, vectorstore, llm, queryCall, reviewVars, limitVars,
                          persist_directory, attached>>

\* os.path.exists(vectorstore_dir) and os.listdir(vectorstore_dir)
HasFiles(d) == d.exists /\ (d.db # "none" \/ d.metadata.present)

\* initialize_rag_system() of a new session: a new instance on the configured directory; an
\* existing non-empty directory is loaded, and only when that raises (or there is none) the
\* PDFs are processed and the index is created; setup_qa_chain() follows either way.  When
\* the creation raises the session is stopped without a system.  The timestamp-suffixed
\* directories of earlier instances are never opened again and are dropped from the state.
InitializeRagSystem ==
    /\ \E f \in Files : pdfs[f] > 0
    /\ \/ \E loaded \in {Chroma(dirs, 0, "none")} :
            /\ HasFiles(dirs[0])
            /\ loaded.outcome = "returned"
            /\ dirs' = [n \in DirNames |-> IF n = 0 THEN loaded.dirs[0] ELSE NoDir]
            /\ persist_directory' = 0
            /\ attached' = 0
            /\ vectorstore' = TRUE
            /\ llm' = TRUE
            /\ call' = [NoCall EXCEPT !.op = "initialize_rag_system", !.outcome = "returned",
                                      !.value = TRUE]
       \/ \E lfault \in {"none", "store"} :
          \E fails \in 0..RmtreeAttempts : \E partial \in BOOLEAN : \E fault \in {"none", "store"} :
            /\ IF HasFiles(dirs[0]) THEN Chroma(dirs, 0, lfault).outcome = "raised"
                                    ELSE lfault = "none"
            /\ RmtreePossible(dirs, 0, fails, partial)
            /\ \E o \in {create_vectorstore(dirs, 0, pdfs, process_all_pdfs(pdfs),
                                              fails, partial, fault)} :
               \E ready \in {o.outcome = "returned"} :
                /\ dirs' = [n \in DirNames |->
                               IF n = 0 \/ (ready /\ n = o.persist_directory)
                               THEN o.dirs[n] ELSE NoDir]
                /\ persist_directory' = IF ready THEN o.persist_directory ELSE 0
                /\ attached' = IF ready THEN o.persist_directory ELSE 0
                /\ vectorstore' = ready
                /\ llm' = ready
                /\ call' = [NoCall EXCEPT !.op = "initialize_rag_system", !.fault = fault,
                                          !.outcome = IF ready THEN "returned" ELSE "stopped",
                                          !.attempts = o.attempts, !.fallback = o.fallback]
    /\ processed_files' = {}
    /\ UNCHANGED <<auxVars, queryCall, reviewVars, limitVars, pdfs>>

InitIndex ==
    /\ IdleQuery
    /\ IdleReview
    /\ operations = <<>> /\ calc = EmptyCalc
    /\ IdleIndex
    /\ IdleAux

\* the life cycle of the persisted index: rebuild, load, freshness check, start-up
NextIndex ==
    \/ WritePdf
    \/ RemovePdf
    \/ NeedsRebuild
    \/ CreateVectorstore
    \/ LoadVectorstore
    \/ InitializeRagSystem

SpecIndex == InitIndex /\ [][NextIndex]_vars

\* the live index of one instance: loaded, then extended and pruned document by document
NextLive ==
    \/ WritePdf
    \/ RemovePdf
    \/ LoadVectorstore
    \/ AddDocuments
    \/ RemoveDocumentsBySource
    \/ HandleFileChange
    \/ Upload

SpecLive == InitIndex /\ [][NextLive]_vars

(***************************************************************************)
(* Properties of the index life cycle                                      *)
(***************************************************************************)
\* the directory the instance is configured on
Configured == dirs[persist_directory]

\* a persisted index exists there: the directory holds a collection that can be opened
IndexExists(d) == d.exists /\ d.db = "ok"

IndexEmpty(d) == Count(d.entries) = 0

\* the fingerprint in the sidecar (none when there is no sidecar) is not the current one
FingerprintDiffers(d, p) == ~d.metadata.present \/ d.metadata.pdf_fingerprint # _get_pdf_fingerprint(p)

C11_Answer ==
    call.op = "needs_rebuild" =>
        /\ call.outcome = "returned"
        /\ call.value <=> \/ ~IndexExists(Configured)
                          \/ IndexEmpty(Configured)
                          \/ FingerprintDiffers(Configured, pdfs)
        /\ ~call.value <=> /\ IndexExists(Configured) /\ ~IndexEmpty(Configured)
                           /\ ~FingerprintDiffers(Configured, pdfs)

C11_ReadOnly ==
    call'.op = "needs_rebuild" =>
        /\ dirs' = dirs
        /\ persist_directory' = persist_directory
        /\ pdfs' = pdfs

\* C11: needs_rebuild(directory) returns true iff no persisted index exists at the configured
\* location, or the index is empty, or the current fingerprint of the directory differs from
\* the one in the sidecar; false exactly when a non-empty index exists and the fingerprints
\* are equal.  The call modifies neither the index nor the sidecar.
C11_NeedsRebuild == [](C11_Answer) /\ [][C11_ReadOnly]_vars

C11_Witness ==
    /\ call.op = "needs_rebuild" /\ call.value
    /\ IndexExists(Configured) /\ ~IndexEmpty(Configured)
    /\ Configured.metadata.present
    /\ Configured.metadata.pdf_fingerprint # _get_pdf_fingerprint(pdfs)

C12_AfterRebuild ==
    call.op = "create_vectorstore" /\ call.outcome = "returned" =>
        /\ ~IndexEmpty(Configured)
        /\ ~needs_rebuild(Configured, pdfs)
        /\ Configured.metadata.document_count = Count(Configured.entries)

\* ingestion again while the files are unchanged: the check, and the load it leads to
C12_Again ==
    /\ call'.op \in {"needs_rebuild", "load_vectorstore"}
    /\ ~needs_rebuild(Configured, pdfs)
    => /\ pdfs' = pdfs
       /\ ~needs_rebuild(dirs'[persist_directory'], pdfs')
       /\ call'.op = "needs_rebuild" => ~call'.value
       /\ Count(dirs'[persist_directory'].entries) = Count(Configured.entries)
       /\ dirs'[persist_directory'].metadata = Configured.metadata

\* C12: after a successful rebuild that produced at least one chunk, and while the files of
\* the directory are unchanged, needs_rebuild returns false, and ingesting again (which then
\* loads instead of rebuilding) leaves the chunk count and the persisted fingerprint as they
\* were.
C12_Idempotent == [](C12_AfterRebuild) /\ [][C12_Again]_vars

C12_Witness ==
    /\ call.op = "load_vectorstore" /\ call.outcome = "returned"
    /\ ~IndexEmpty(Configured)
    /\ ~needs_rebuild(Configured, pdfs)
    /\ Configured.metadata.document_count = Count(Configured.entries)

\* C13: when the embedding / index-creation step of create_vectorstore fails, the error is
\* raised and the index (with its sidecar) persisted before the call is still the one found
\* at the location that was configured: the old index is replaced only by a complete new one.
C13_AtomicRebuild ==
    [][call'.op = "create_vectorstore" /\ call'.fault = "store" =>
           /\ call'.outcome = "raised"
           /\ IndexExists(Configured) => dirs'[persist_directory] = Configured]_vars

\* the index create_vectorstore builds from the PDFs of the directory, sidecar included
CompleteIndex(d, p) ==
    /\ IndexExists(d)
    /\ d.entries = process_all_pdfs(p)
    /\ d.metadata = MetadataOf(_get_pdf_fingerprint(p), Count(process_all_pdfs(p)))

C15_LoadRequiresIndex ==
    [][call'.op = "load_vectorstore" /\ call'.outcome = "returned" =>
           /\ IndexExists(Configured) /\ ~IndexEmpty(Configured)
           /\ ~IndexEmpty(dirs'[persist_directory'])]_vars

\* C19: at start-up, when a persisted index exists but the fingerprint in its sidecar differs
\* from the current fingerprint of the document directory, the index is rebuilt in full
\* before the system is ready; an existing index is loaded as it is only when the two
\* fingerprints are equal.
C19_MismatchRebuilds ==
    [][call'.op = "initialize_rag_system" /\ call'.outcome = "returned" =>
           /\ (call'.value /\ dirs[0].metadata.present) =>
                  dirs[0].metadata.pdf_fingerprint = _get_pdf_fingerprint(pdfs)
           /\ dirs'[persist_directory'].metadata.present =>
                  ~FingerprintDiffers(dirs'[persist_directory'], pdfs')]_vars

(***************************************************************************)
(* Properties of the mutations of the live index                           *)
(***************************************************************************)
\* the handle's index
Live == dirs[attached]

\* the chunks handed to the add_documents_to_vectorstore call the step made
GivenTo(c, p) == IF c.empty THEN NoEntries ELSE process_single_pdf(c.source, p)

\* C16: whenever add_documents_to_vectorstore returns without raising, the index holds the
\* given chunks in addition to everything it held before, and the sidecar has been updated:
\* its document_count is the total count of the index and its fingerprint is the current
\* fingerprint of the directory of the PDF.
C16_AddPostcondition ==
    [][call'.op = "add_documents_to_vectorstore" /\ call'.outcome = "returned" =>
           /\ dirs'[attached'].entries = Plus(Live.entries, GivenTo(call', pdfs))
           /\ dirs'[persist_directory'].metadata =
                  MetadataOf(_get_pdf_fingerprint(pdfs'), Count(dirs'[attached'].entries))]_vars

\* C17: remove_documents_by_source(pdf_path) removes exactly the entries whose source_file is
\* the basename of pdf_path: after it returns none of them is left in the index, and every
\* entry of another source_file is still there unchanged.
C17_RemoveExactly ==
    [][call'.op = "remove_documents_by_source" /\ call'.outcome = "returned" =>
           /\ \A d \in Docs : d[1] = call'.source => dirs'[attached'].entries[d] = 0
           /\ \A d \in Docs : d[1] # call'.source =>
                  dirs'[attached'].entries[d] = Live.entries[d]]_vars

\* C18: a failure of the store or of the embedding service during create_vectorstore,
\* add_documents_to_vectorstore or remove_documents_by_source is not swallowed: the operation
\* raises to its caller instead of returning as if it had succeeded.
C18_FailuresRaise ==
    /\ call.op \in {"create_vectorstore", "add_documents_to_vectorstore",
                    "remove_documents_by_source"}
    /\ call.fault = "store"
    /\ ~call.empty
    => call.outcome = "raised"

\* the sets of chunks the index holds for one source_file
SetsOf(e, f) == SumOver({d \in Docs : d[1] = f}, e)

NoDuplicates(e) == \A f \in Files : SetsOf(e, f) <= 1

\* C20: ingestion on the live index (an upload through the form, a file-change event of type
\* created, modified or deleted) keeps at most one copy of each document's chunks: ingesting
\* a document whose source_file is already in the index does not leave two sets of entries
\* for that source_file.  Stated for the ingestions in which no store or sidecar call fails.
C20_NoDuplicateChunks ==
    [][/\ call'.op \in {"upload"} \cup EventTypes
       /\ call'.fault = "none"
       /\ NoDuplicates(Live.entries)
       => NoDuplicates(dirs'[attached'].entries)]_vars

(***************************************************************************)
(* Further properties of the Code Reviewer                                 *)
(***************************************************************************)
\* line i lies inside the brace block of a loop that started before it
InsideLoop(i) == \E j \in 1..(i - 1) : BraceLoop(j) /\ ~ClosedBefore(j, i)

Flagged(i, kind) == \E k \in DOMAIN issues : issues[k].line = i /\ issues[k].kind = kind

\* C22: a loop stays open from its opening line until its own closing brace: every line
\* inside the brace block of at least one loop that has a SOQL or DML pattern and no closing
\* brace is flagged, also when a nested block (an if-block) of the loop body was closed
\* before it.
C22_LoopStaysOpen ==
    \A i \in 1..lineNo :
        PlainPrefix(i) /\ InsideLoop(i) /\ lines[i].close = 0 =>
            /\ lines[i].soql => Flagged(i, "soql_in_loop")
            /\ lines[i].dml => Flagged(i, "dml_in_loop")

(***************************************************************************)
(* Further properties of query                                             *)
(***************************************************************************)
\* C23: on the tool path sources is the first min(3, n) of the n retrieved chunks, in
\* retrieval order; on the GeneralRAG path with n >= 1 hits sources is all n retrieved
\* chunks in retrieval order; on both paths source_metadata is as long as sources and
\* source_metadata[i] is the metadata of sources[i].
C23_SourceSelection ==
    qpc = "returned" =>
        /\ ToolPath =>
              /\ Len(result.sources) = (IF Len(docs) < 3 THEN Len(docs) ELSE 3)
              /\ \A k \in 1..Len(result.sources) : result.sources[k] = docs[k]
        /\ (~ToolPath /\ Len(docs) >= 1) => result.sources = docs
        /\ Len(result.source_metadata) = Len(result.sources)
        /\ \A k \in 1..Len(result.sources) :
               result.source_metadata[k] = result.sources[k].metadata

C23_Witness ==
    /\ qpc = "returned" /\ ToolPath
    /\ Len(docs) > 3 /\ Len(result.sources) = 3
    /\ Len(result.source_metadata) = 3
    /\ result.source_metadata[3] = docs[3].metadata

\* the positions at which one of `public class`, `trigger`, `public`, `private` starts
CodeStarts(q) ==
    {i \in DOMAIN q : q[i].vt = "" /\ q[i].w \in {"trigger", "public", "private"}}
    \cup {i \in 1..(Len(q) - 1) : /\ q[i].vt = "" /\ q[i].w = "public"
                                  /\ q[i + 1].vt = "" /\ q[i + 1].w = "class"}

Earliest(S) == CHOOSE i \in S : \A j \in S : i <= j

\* the question has a "{" with a "}" after it
BracePair(q) == In("{", q) /\ FindFrom("}", q, Find("{", q)) # 0

\* C24: for a question routed to CodeReview the code handed to the reviewer is the rest of
\* the question from the earliest position at which any of `public class`, `trigger`,
\* `public`, `private` occurs; when none occurs and the question has a `{`/`}` pair, it is
\* the text from the first `{` through the first `}` after it.
C24_CodeExtraction ==
    qpc \in {"returned", "raised"} /\ intent = "CodeReview" =>
        /\ CodeStarts(cleaned) # {} =>
               payload = SubSeq(cleaned, Earliest(CodeStarts(cleaned)), Len(cleaned))
        /\ (CodeStarts(cleaned) = {} /\ BracePair(cleaned)) =>
               payload = SubSeq(cleaned, Find("{", cleaned),
                                FindFrom("}", cleaned, Find("{", cleaned)))

\* the statement as the user typed it: the extraction applied to the question itself
TypedStatement == QueryPayload(Strip(question))

\* C25: when a question with a SOQL statement holding LIKE '%...' is routed to
\* QueryOptimize, the statement handed to the optimizer has the quote characters of the
\* statement the user typed (the HTML escaping of the validation is undone), so the report
\* flags the leading wildcard and suggests SOSL exactly as when the optimizer is invoked on
\* the statement directly.
C25_LikeFlaggedEndToEnd ==
    (qpc = "returned" /\ intent = "QueryOptimize"
       /\ soql_query_optimizer(TypedStatement).leading_wildcard_issue) =>
        /\ payload = TypedStatement
        /\ soql_query_optimizer(payload).leading_wildcard_issue
        /\ soql_query_optimizer(payload).sosl_suggested

(***************************************************************************)
(* Further properties of the mutations of the live index                   *)
(***************************************************************************)
\* C26: when handle_file_change is called with event type "deleted" for a PDF that is no
\* longer in the directory, all entries whose source_file is that file's name are removed
\* from the index and the sidecar is updated.
C26_DeletionPrunes ==
    [][/\ call'.op = "deleted" /\ call'.fault = "none"
       /\ vectorstore
       /\ pdfs[call'.source] = 0
       /\ SetsOf(Live.entries, call'.source) > 0
       => /\ SetsOf(dirs'[attached'].entries, call'.source) = 0
          /\ dirs'[persist_directory'].metadata =
                 MetadataOf(_get_pdf_fingerprint(pdfs'), Count(dirs'[attached'].entries))]_vars

\* the index reflects the directory: the chunks of the current version of every PDF present
\* are in it, and no chunks of a file that is absent
Reflects(e, p) ==
    /\ \A f \in Files : p[f] > 0 => e[<<f, p[f]>>] >= 1
    /\ \A d \in Docs : e[d] > 0 => p[d[1]] > 0

\* C30: after any sequence of add, remove and file-change operations interleaved with
\* changes to the document directory, whenever needs_rebuild(directory) returns false the
\* index reflects the directory; adding or removing one document never makes the index count
\* as fresh while another document's change is not ingested.
C30_FreshIsConsistent ==
    (vectorstore /\ attached = persist_directory /\ ~needs_rebuild(Configured, pdfs))
        => Reflects(Live.entries, pdfs)

(***************************************************************************)
(* SalesforceDocumentProcessor: splitting the PDFs of a directory          *)
(***************************************************************************)
\* load_pdf(pdf_path) for a PDF the splitter cuts into n chunks: the metadata of its chunks,
\* chunk_index being the position in `for i, chunk in enumerate(chunks)` of this PDF
load_pdf(filename, n) == [i \in 1..n |-> [source_file |-> filename, chunk_index |-> i - 1]]

\* process_all_pdfs(pdf_directory) from the k-th name on: the chunks of every PDF that is
\* present and loads, in sorted order of the names; a PDF whose load raises is skipped
RECURSIVE ChunksFrom(_, _, _)
ChunksFrom(k, s, failing) ==
    IF k > Len(PdfNames) THEN <<>>
    ELSE (IF s[k] = 0 \/ k \in failing THEN <<>> ELSE load_pdf(PdfNames[k], s[k]))
         \o ChunksFrom(k + 1, s, failing)

InitChunks ==
    /\ IdleQuery
    /\ IdleReview
    /\ operations = <<>> /\ calc = EmptyCalc
    /\ IdleIndex
    /\ splits \in [DOMAIN PdfNames -> 0..MaxChunks]
    /\ all_chunks = <<>>
    /\ IdleWatch
    /\ IdleRate

\* one call of process_all_pdfs(pdf_directory); failing: the PDFs whose load raises
ProcessAllPdfs ==
    /\ \E failing \in SUBSET {k \in DOMAIN PdfNames : splits[k] > 0} :
          all_chunks' = ChunksFrom(1, splits, failing)
    /\ UNCHANGED <<splits, watchVars, rateVars, queryVars, reviewVars, limitVars, indexVars>>

NextChunks == ProcessAllPdfs

SpecChunks == InitChunks /\ [][NextChunks]_vars

\* C21: chunk_index is a running position over the whole batch: the k-th chunk (0-based) of
\* the sequence process_all_pdfs returns has chunk_index = k, so over a directory with
\* several documents the values are pairwise distinct and are 0..n-1.
C21_RunningChunkIndex ==
    /\ \A k \in DOMAIN all_chunks : all_chunks[k].chunk_index = k - 1
    /\ \A j, k \in DOMAIN all_chunks :
           j # k => all_chunks[j].chunk_index # all_chunks[k].chunk_index

(***************************************************************************)
(* handle_file_change called by several threads: the processing flag       *)
(*                                                                         *)
(* pc of a call: "idle" (not in the call), "mark" (past the two guards),   *)
(* "work" (flag set, inside the try), "finally" (the steps on the index    *)
(* are done or have raised).                                               *)
(***************************************************************************)
InitWatch ==
    /\ IdleQuery
    /\ IdleReview
    /\ operations = <<>> /\ calc = EmptyCalc
    /\ IdleIndex
    /\ IdleChunks
    /\ IdleWatch
    /\ IdleRate

\* the two guards: the file is missing (exists = FALSE), or its flag is set: return
EnterHandler(t) ==
    \E f \in Files : \E event_type \in EventTypes : \E exists \in BOOLEAN :
        /\ handlers[t].pc = "idle"
        /\ handlers' = [handlers EXCEPT ![t] =
                           IF ~exists \/ processing[f] THEN NoHandler
                           ELSE [pc |-> "mark", file |-> f, event_type |-> event_type,
                                 touched |-> FALSE]]
        /\ UNCHANGED <<processing, chunkVars, rateVars, queryVars, reviewVars, limitVars, indexVars>>

\* setattr(self, processing_key, True)
MarkProcessing(t) ==
    /\ handlers[t].pc = "mark"
    /\ processing' = [processing EXCEPT ![handlers[t].file] = TRUE]
    /\ handlers' = [handlers EXCEPT ![t].pc = "work"]
    /\ UNCHANGED <<chunkVars, rateVars, queryVars, reviewVars, limitVars, indexVars>>

\* the remove / process / add steps of the event on the index, which may raise
ProcessEvent(t) ==
    /\ handlers[t].pc = "work"
    /\ handlers' = [handlers EXCEPT ![t].pc = "finally", ![t].touched = TRUE]
    /\ UNCHANGED <<processing, chunkVars, rateVars, queryVars, reviewVars, limitVars, indexVars>>

\* finally: setattr(self, processing_key, False); the call returns
ResetProcessing(t) ==
    /\ handlers[t].pc = "finally"
    /\ processing' = [processing EXCEPT ![handlers[t].file] = FALSE]
    /\ handlers' = [handlers EXCEPT ![t] = NoHandler]
    /\ UNCHANGED <<chunkVars, rateVars, queryVars, reviewVars, limitVars, indexVars>>

NextWatch ==
    \E t \in Threads : \/ EnterHandler(t)
                       \/ MarkProcessing(t)
                       \/ ProcessEvent(t)
                       \/ ResetProcessing(t)

SpecWatch == InitWatch /\ [][NextWatch]_vars

\* two calls for the same file are both between their guards and their return
Overlap(t, u) ==
    /\ t # u
    /\ handlers[t].pc # "idle" /\ handlers[u].pc # "idle"
    /\ handlers[t].file = handlers[u].file

C27_OneWorker == \A t, u \in Threads : Overlap(t, u) => ~(handlers[t].touched /\ handlers[u].touched)

C27_FlagReset ==
    \A t \in Threads :
        (handlers[t].pc = "finally" /\ handlers'[t].pc = "idle") => ~processing'[handlers[t].file]

\* C27: when two handle_file_change calls for the same filename overlap in time, at most one
\* of them performs the remove / process / add steps on the index and the other returns
\* without touching it; and whenever a call that set the processing flag finishes, normally
\* or through an exception, the flag is false again.
C27_DuplicatePrevention == [](C27_OneWorker) /\ [][C27_FlagReset]_vars

(***************************************************************************)
(* RateLimiter.is_allowed("query")                                         *)
(*                                                                         *)
(* A call reads the clock, then takes the lock; the block under the lock   *)
(* is one step.  The clock is sampled at the instants of Instants.         *)
(***************************************************************************)
queries_per_minute == 10
queries_per_hour == 100
MinuteWindow == 60
HourWindow == 3600

\* the instants at which the clock is read in a run
Instants == <<0, 60, 3601>>

\* while user_requests and current_time - user_requests[0] > 3600: user_requests.popleft()
RECURSIVE CleanOld(_, _)
CleanOld(user_requests, current_time) ==
    IF user_requests # <<>> /\ current_time - Head(user_requests) > HourWindow
    THEN CleanOld(Tail(user_requests), current_time)
    ELSE user_requests

\* sum(1 for req_time in user_requests if current_time - req_time < 60)
MinuteCount(user_requests, current_time) ==
    Cardinality({i \in DOMAIN user_requests : current_time - user_requests[i] < MinuteWindow})

\* the block under the lock for a regular query: the deque it leaves and its answer
is_allowed(user_requests, current_time) ==
    LET cleaned_requests == CleanOld(user_requests, current_time)
        minute_count == MinuteCount(cleaned_requests, current_time)
        hour_count == Len(cleaned_requests)
    IN IF minute_count >= queries_per_minute THEN [allowed |-> FALSE, requests |-> cleaned_requests]
       ELSE IF hour_count >= queries_per_hour THEN [allowed |-> FALSE, requests |-> cleaned_requests]
       ELSE [allowed |-> TRUE, requests |-> Append(cleaned_requests, current_time)]

RECURSIVE TotalLen(_, _)
TotalLen(S, f) == IF S = {} THEN 0
                  ELSE LET u == CHOOSE x \in S : TRUE IN Len(f[u]) + TotalLen(S \ {u}, f)

InitRate ==
    /\ IdleQuery
    /\ IdleReview
    /\ operations = <<>> /\ calc = EmptyCalc
    /\ IdleIndex
    /\ IdleChunks
    /\ IdleWatch
    /\ IdleRate

\* time passes to a later instant
AdvanceClock ==
    /\ \E i \in DOMAIN Instants : Instants[i] > now /\ now' = Instants[i]
    /\ UNCHANGED <<requests, accepted, callers, query_count, answered,
                   chunkVars, watchVars, queryVars, reviewVars, limitVars, indexVars>>

\* user_id = self.get_user_id(); current_time = time.time()
ReadClock(t) ==
    \E u \in Users :
        /\ callers[t].pc = "idle"
        /\ TotalLen(Users, accepted) < MaxCalls
        /\ callers' = [callers EXCEPT ![t] = [pc |-> "lock", user |-> u, current_time |-> now]]
        /\ UNCHANGED <<now, requests, accepted, query_count, answered,
                       chunkVars, watchVars, queryVars, reviewVars, limitVars, indexVars>>

\* with self.lock: ... return
UnderLock(t) ==
    /\ callers[t].pc = "lock"
    /\ \E u \in {callers[t].user} :
       \E o \in {is_allowed(requests[u], callers[t].current_time)} :
          /\ requests' = [requests EXCEPT ![u] = o.requests]
          /\ accepted' = IF o.allowed
                         THEN [accepted EXCEPT ![u] = Append(@, callers[t].current_time)]
                         ELSE accepted
          /\ callers' = [callers EXCEPT ![t] = NoCaller]
    /\ UNCHANGED <<now, query_count, answered,
                   chunkVars, watchVars, queryVars, reviewVars, limitVars, indexVars>>

NextRate ==
    \/ AdvanceClock
    \/ \E t \in Threads : ReadClock(t) \/ UnderLock(t)

SpecRate == InitRate /\ [][NextRate]_vars

\* the accepted calls of one user whose timestamps lie in the span of the given length from a
InSpan(u, a, length) ==
    Cardinality({i \in DOMAIN accepted[u] : accepted[u][i] >= a /\ accepted[u][i] < a + length})

\* C28: whatever the interleaving of the is_allowed("query") calls of the
\* threads, no user has more than 10 accepted requests with timestamps in one
\* 60-second span, nor more than 100 in one hour.
C28_RateBound ==
    \A u \in Users : \A i \in DOMAIN accepted[u] :
        /\ InSpan(u, accepted[u][i], MinuteWindow) <= queries_per_minute
        /\ InSpan(u, accepted[u][i], HourWindow) <= queries_per_hour

(***************************************************************************)
(* The question form of the UI: one script run per submitted question.     *)
(* What rag_system.query answers is left out here; the steps are the calls *)
(* of the run into the rate limiter and into the monitor.                  *)
(***************************************************************************)
InitUi == InitRate

\* monitor.log_query: self.query_count += 1
log_query(count) == count + 1

\* rag_system.query as decorated: track_query(rate_limit("query")(query)).
\* The rate_limit wrapper calls is_allowed and raises when it answers False;
\* the track_query wrapper logs in its finally block either way.
DecoratedQuery(user_requests, count) ==
    LET inner == is_allowed(user_requests, now)
    IN [raised |-> ~inner.allowed, requests |-> inner.requests, allowed |-> inner.allowed,
        query_count |-> log_query(count)]

\* main, for a submitted question: validate, rate_limiter.is_allowed("query"),
\* then process_question (itself under track_query) calling the decorated query
SubmitQuestion(u) ==
    \E is_valid \in BOOLEAN :
        /\ query_count < 2 * MaxQuestions
        /\ \A t \in Threads : callers[t].pc = "idle"
        /\ IF ~is_valid
           THEN UNCHANGED <<requests, accepted, query_count, answered>>
           ELSE \E outer \in {is_allowed(requests[u], now)} :
                IF ~outer.allowed
                THEN /\ requests' = [requests EXCEPT ![u] = outer.requests]
                     /\ UNCHANGED <<accepted, query_count, answered>>
                ELSE \E q \in {DecoratedQuery(outer.requests, query_count)} :
                     /\ requests' = [requests EXCEPT ![u] = q.requests]
                     /\ accepted' = [accepted EXCEPT ![u] =
                                        IF q.allowed THEN @ \o <<now, now>> ELSE Append(@, now)]
                     /\ query_count' = log_query(q.query_count)
                     /\ answered' = [answered EXCEPT ![u] = IF q.raised THEN @ ELSE @ + 1]
        /\ UNCHANGED <<now, callers,
                       chunkVars, watchVars, queryVars, reviewVars, limitVars, indexVars>>

NextUi ==
    \/ AdvanceClock
    \/ \E u \in Users : SubmitQuestion(u)

SpecUi == InitUi /\ [][NextUi]_vars

RECURSIVE TotalAnswered(_)
TotalAnswered(S) == IF S = {} THEN 0
                    ELSE LET u == CHOOSE x \in S : TRUE IN answered[u] + TotalAnswered(S \ {u})

\* C29: each question the UI answers takes one slot of the user's quota and is
\* logged once by the monitor: after k answered questions the user has k
\* recorded timestamps and monitor.query_count has grown by k.
C29_OneSlotOneLog ==
    /\ \A u \in Users : Len(accepted[u]) = answered[u]
    /\ query_count = TotalAnswered(Users)
====
